---- MODULE Spec2Model ----
(***************************************************************************)
(* Azure DevOps pull-request reviewer: the azure_devops_reviewer tool      *)
(* (src/core/tools.ts) and AzureDevOpsService with parseAzureRemote        *)
(* (docs/plan.md, lines 17-333).                                           *)
(*                                                                         *)
(* Strings that the code only compares or passes through are TLA+ strings. *)
(* A git remote URL is a sequence of lexemes (scheme, host, "/", "_git",   *)
(* ".git", names ...), and the regular expressions of parseAzureRemote are *)
(* evaluated over such sequences with the backtracking order of the        *)
(* JavaScript matcher: leftmost start, lazy groups shortest first.         *)
(***************************************************************************)
EXTENDS Integers, Sequences, FiniteSets, TLC

\* ------------------------------------------------------------------------
\* Bounds
\* ------------------------------------------------------------------------
NCallers == 2
MaxDispatches == 3
MaxIterations == 3
MaxIterationId == 5

\* parseAzureRemote's null, as a record of the shape of a match
NoMatch == [matched |-> FALSE, organization |-> <<>>, project |-> <<>>, repository |-> <<>>]

\* ------------------------------------------------------------------------
\* parseAzureRemote
\* ------------------------------------------------------------------------

\* the /i flag: literals are compared after case folding
Fold(x) ==
  CASE x = "HTTPS://" -> "https://"
    [] x = "DEV.AZURE.COM" -> "dev.azure.com"
    [] OTHER -> x

\* lexemes made only of characters of the class [\w.-]
WordClass == {"dev.azure.com", "DEV.AZURE.COM", "_git", ".git", ".visualstudio.com",
              "contoso", "web", "api", "jane"}

\* literal lit occurs in s right after the first i lexemes
LitAt(s, i, lit) ==
  /\ i + Len(lit) <= Len(s)
  /\ \A k \in 1..Len(lit) : Fold(s[i + k]) = lit[k]

SetMin(S) == CHOOSE x \in S : \A y \in S : x <= y
SetMax(S) == CHOOSE x \in S : \A y \in S : x >= y

\* (.+)$ instead: a greedy group that keeps the suffix
RepoLensGreedy(s, i) == {l \in 1..(Len(s) - i) : i + l = Len(s)}
\* (.+?)(?:\.git)?$ starting after i lexemes: the lengths the lazy group can take
RepoLens(s, i) ==
  {l \in 1..(Len(s) - i) :
     \/ i + l = Len(s)
     \/ i + l = Len(s) - 1 /\ Fold(s[Len(s)]) = ".git"}

\* (.+?) sepB (.+?)(?:\.git)?$ starting after i lexemes
ProjectLens(s, i, sepB) ==
  {l \in 1..(Len(s) - i) :
     LitAt(s, i + l, sepB) /\ RepoLens(s, i + l + Len(sepB)) # {}}

\* (.+?) sepA (.+?) sepB (.+?)(?:\.git)?$ starting after i lexemes
OrgLens(s, i, sepA, sepB) ==
  {l \in 1..(Len(s) - i) :
     LitAt(s, i + l, sepA) /\ ProjectLens(s, i + l + Len(sepA), sepB) # {}}

\* [\w.-]+ starting after i lexemes (empty set of lengths when the pattern has
\* no user part: the only "length" is then 0)
UserLens(s, i, pat) ==
  IF ~pat.user THEN {0}
  ELSE {u \in 1..(Len(s) - i) : \A k \in 1..u : s[i + k] \in WordClass}

\* the pattern matches with its first lexeme at position start + 1
\* pat = [pre, user, mid, sepA, sepB]:  pre [\w.-]+ mid (.+?) sepA (.+?) sepB (.+?)(?:\.git)?$
UsersAt(s, start, pat) ==
  {u \in UserLens(s, start + Len(pat.pre), pat) :
     /\ LitAt(s, start + Len(pat.pre) + u, pat.mid)
     /\ OrgLens(s, start + Len(pat.pre) + u + Len(pat.mid), pat.sepA, pat.sepB) # {}}

StartsOf(s, pat) ==
  {st \in 0..Len(s) : LitAt(s, st, pat.pre) /\ UsersAt(s, st, pat) # {}}

\* remoteUrl.match(pattern): no match, or the three captured groups
RegexMatch(s, pat) ==
  IF StartsOf(s, pat) = {} THEN NoMatch
  ELSE LET st == SetMin(StartsOf(s, pat))
           u  == SetMax(UsersAt(s, st, pat))
           i1 == st + Len(pat.pre) + u + Len(pat.mid)
           l1 == SetMin(OrgLens(s, i1, pat.sepA, pat.sepB))
           i2 == i1 + l1 + Len(pat.sepA)
           l2 == SetMin(ProjectLens(s, i2, pat.sepB))
           i3 == i2 + l2 + Len(pat.sepB)
           l3 == SetMin(RepoLens(s, i3))
       IN  [matched      |-> TRUE,
            organization |-> SubSeq(s, i1 + 1, i1 + l1),
            project      |-> SubSeq(s, i2 + 1, i2 + l2),
            repository   |-> SubSeq(s, i3 + 1, i3 + l3)]

httpsPattern ==
  [pre |-> <<"https://", "dev.azure.com", "/">>, user |-> FALSE, mid |-> <<>>,
   sepA |-> <<"/">>, sepB |-> <<"/", "_git", "/">>]
httpsWithUserPattern ==
  [pre |-> <<"https://">>, user |-> TRUE, mid |-> <<"@", "dev.azure.com", "/">>,
   sepA |-> <<"/">>, sepB |-> <<"/", "_git", "/">>]
sshPattern ==
  [pre |-> <<"git@ssh.dev.azure.com:v3", "/">>, user |-> FALSE, mid |-> <<>>,
   sepA |-> <<"/">>, sepB |-> <<"/">>]
legacyVisualStudioPattern ==
  [pre |-> <<"https://">>, user |-> FALSE, mid |-> <<>>,
   sepA |-> <<".visualstudio.com", "/">>, sepB |-> <<"/", "_git", "/">>]

candidates == <<httpsPattern, httpsWithUserPattern, sshPattern>>

RECURSIVE FirstCandidate(_, _)
FirstCandidate(s, k) ==
  IF k > Len(candidates) THEN NoMatch
  ELSE IF RegexMatch(s, candidates[k]).matched THEN RegexMatch(s, candidates[k])
  ELSE FirstCandidate(s, k + 1)

parseAzureRemote(remoteUrl) ==
  IF FirstCandidate(remoteUrl, 1).matched THEN FirstCandidate(remoteUrl, 1)
  ELSE RegexMatch(remoteUrl, legacyVisualStudioPattern)

\* ------------------------------------------------------------------------
\* JavaScript values of the tool's parameters
\* ------------------------------------------------------------------------
Undef  == [t |-> "undefined", n |-> 0, s |-> ""]
Num(k) == [t |-> "number", n |-> k, s |-> ""]
Str(x) == [t |-> "string", n |-> 0, s |-> x]

Actions == {"list_prs", "get_pr", "get_diff", "get_comments",
            "post_comment", "reply_comment", "resolve_thread"}

\* z.object({...}) of azure_devops_reviewer: every field but action is optional
AllParams ==
  [action : Actions,
   pullRequestId : {Undef, Num(7)},
   threadId : {Undef, Num(3)},
   content : {Undef, Str(""), Str("LGTM")},
   status : {Undef, Str(""), Str("completed"), Str("wontFix")}]

\* the fields an action reads (list_prs reads none: its status and
\* pullRequestId stay free so that they can be seen to be ignored)
Reads(action) ==
  CASE action = "list_prs" -> {"status", "pullRequestId"}
    [] action \in {"get_pr", "get_diff", "get_comments"} -> {"pullRequestId"}
    [] action = "post_comment" -> {"pullRequestId", "content"}
    [] action = "reply_comment" -> {"pullRequestId", "threadId", "content"}
    [] action = "resolve_thread" -> {"pullRequestId", "threadId", "status"}

Requests ==
  {p \in AllParams :
     \A f \in {"pullRequestId", "threadId", "content", "status"} :
        f \notin Reads(p.action) => p[f] = Undef}

NoRequest == [action |-> "none", pullRequestId |-> Undef, threadId |-> Undef,
              content |-> Undef, status |-> Undef]

\* requireParam: the value is missing
IsMissing(value) ==
  \/ value.t = "undefined"
  \/ value.t = "null"
  \/ value.t = "string" /\ value.s = ""

JsNull == [t |-> "null", n |-> 0, s |-> ""]

\* ------------------------------------------------------------------------
\* Results and errors
\* ------------------------------------------------------------------------
NoResult == [kind |-> "none", what |-> "", arg |-> "", status |-> 0]
Value(what) == [kind |-> "value", what |-> what, arg |-> "", status |-> 0]
Failure(what, arg, status) == [kind |-> "error", what |-> what, arg |-> arg, status |-> status]

ErrNoPat == Failure("ADO_PAT environment variable is not set", "", 0)
ErrExec == Failure("git remote get-url origin failed", "", 0)
ErrRemote == Failure("Unable to determine Azure DevOps repository details from git remote", "", 0)
ErrMetadata == Failure("Unable to fetch Azure DevOps repository metadata", "", 0)
ErrMissing(name) == Failure("Missing required parameter", name, 0)
ErrHttp(status) == Failure("Azure DevOps request failed", "", status)
ErrNetwork == Failure("fetch failed", "", 0)
ErrTypeError == Failure("TypeError: cannot read properties of undefined (reading 'value')", "", 0)

\* ------------------------------------------------------------------------
\* The transport: what fetch can answer
\* ------------------------------------------------------------------------
Statuses == {200, 204, 404, 500}
Responses == {[net |-> FALSE, status |-> st] : st \in Statuses}
               \cup {[net |-> TRUE, status |-> 0]}
NoAnswer == [net |-> FALSE, status |-> 0]

\* the id field of the repository-metadata body
RepositoryBodies == {Str("guid-1"), Str("guid-2"), Str(""), Undef}

IterationIds == 1..MaxIterationId
RECURSIVE SeqsUpTo(_, _)
SeqsUpTo(S, n) ==
  IF n = 0 THEN {<<>>}
  ELSE SeqsUpTo(S, n - 1) \cup
       {Append(q, x) : q \in {r \in SeqsUpTo(S, n - 1) : Len(r) = n - 1}, x \in S}
\* the iteration ids of a pull request, in the order the server lists them
IterationLists ==
  {q \in SeqsUpTo(IterationIds, MaxIterations) :
     \A i, j \in 1..Len(q) : i # j => q[i] # q[j]}

\* only 5xx treated as failure
ResponseOkBelow500(status) == status >= 200 /\ status <= 499
\* response.ok
ResponseOk(status) == status >= 200 /\ status <= 299

\* request<T>(): the error it throws, undefined on 204, else the parsed body
\* (parsed = 1 when response.json() was called)
RequestOutcome(resp) ==
  IF resp.net THEN [result |-> ErrNetwork, parsed |-> 0]
  ELSE IF ~ResponseOk(resp.status) THEN [result |-> ErrHttp(resp.status), parsed |-> 0]
  ELSE IF resp.status = 204 THEN [result |-> Value("undefined"), parsed |-> 0]
  ELSE [result |-> Value("json"), parsed |-> 1]

\* ------------------------------------------------------------------------
\* getLatestIterationId: [...value].sort((a, b) => a.id - b.id), then the last
\* ------------------------------------------------------------------------
RECURSIVE InsertSorted(_, _)
InsertSorted(q, x) ==
  IF q = <<>> THEN <<x>>
  ELSE IF x - q[Len(q)] >= 0 THEN Append(q, x)
  ELSE Append(InsertSorted(SubSeq(q, 1, Len(q) - 1), x), q[Len(q)])

RECURSIVE SortById(_)
SortById(q) ==
  IF q = <<>> THEN <<>>
  ELSE InsertSorted(SortById(SubSeq(q, 1, Len(q) - 1)), q[Len(q)])

\* the last iteration of the list as the server sent it, unsorted
LastInsertedIteration(iterations) == iterations[Len(iterations)]
\* only called on a non-empty list (the empty one returns null before the sort)
LatestIteration(iterations) == SortById(iterations)[Len(iterations)]

\* ------------------------------------------------------------------------
\* The dispatcher's choices (tools.ts, execute)
\* ------------------------------------------------------------------------

\* the requireParam calls of each case, in order
Required(action) ==
  CASE action = "list_prs" -> <<>>
    [] action \in {"get_pr", "get_diff", "get_comments"} -> <<"pullRequestId">>
    [] action = "post_comment" -> <<"pullRequestId", "content">>
    [] action = "reply_comment" -> <<"pullRequestId", "threadId", "content">>
    [] action = "resolve_thread" -> <<"pullRequestId", "threadId">>

MissingIndexes(req) ==
  {i \in 1..Len(Required(req.action)) : IsMissing(req[Required(req.action)[i]])}

HasMissing(req) == MissingIndexes(req) # {}
\* the name in the error of the first requireParam that throws
FirstMissing(req) == Required(req.action)[SetMin(MissingIndexes(req))]

\* params.status || "closed" instead
ResolveStatusFalsy(req) ==
  IF req.status.t \in {"undefined", "null"} \/ req.status.s = "" THEN "closed" ELSE req.status.s
\* resolve_thread: params.status ?? "closed"
ResolveStatus(req) ==
  IF req.status.t \in {"undefined", "null"} THEN "closed" ELSE req.status.s

\* service.listPullRequests(params.status) instead
ListStatusForwarded(req) == req.status
\* list_prs: service.listPullRequests() is called without an argument
ListStatusArg(req) == Undef

\* listPullRequests(status = "active"): the default parameter
ListStatus(arg) == IF arg.t = "undefined" THEN "active" ELSE arg.s

\* ------------------------------------------------------------------------
\* The HTTP requests of AzureDevOpsService
\* ------------------------------------------------------------------------
ADO_API_VERSION == "7.1-preview.1"

BlankRequest ==
  [method |-> "GET", resource |-> "", repository |-> "", pullRequestId |-> 0,
   threadId |-> 0, iteration |-> 0, status |-> "", content |-> "",
   name |-> <<>>, apiVersion |-> ADO_API_VERSION]

\* ensureRepositoryMetadata: repositories/{repository name}
MetadataRequest(repoInfo) ==
  [BlankRequest EXCEPT !.resource = "repository", !.name = repoInfo.repository]

\* the first request of the service method the dispatcher calls
OperationRequest(req, repositoryId) ==
  LET base == [BlankRequest EXCEPT !.repository = repositoryId,
                                   !.pullRequestId = req.pullRequestId.n]
  IN CASE req.action = "list_prs" ->
            [BlankRequest EXCEPT !.repository = repositoryId,
                                 !.resource = "pullRequests",
                                 !.status = ListStatus(ListStatusArg(req))]
       [] req.action = "get_pr" -> [base EXCEPT !.resource = "pullRequest"]
       [] req.action = "get_diff" -> [base EXCEPT !.resource = "iterations"]
       [] req.action = "get_comments" -> [base EXCEPT !.resource = "threads"]
       [] req.action = "post_comment" ->
            [base EXCEPT !.method = "POST", !.resource = "threads",
                         !.status = "active", !.content = req.content.s]
       [] req.action = "reply_comment" ->
            [base EXCEPT !.method = "POST", !.resource = "comments",
                         !.threadId = req.threadId.n, !.content = req.content.s]
       [] req.action = "resolve_thread" ->
            [base EXCEPT !.method = "PATCH", !.resource = "thread",
                         !.threadId = req.threadId.n, !.status = ResolveStatus(req)]

\* getPullRequestDiff: .../iterations/{latestIteration}/changes
ChangesRequest(req, repositoryId, latestIteration) ==
  [BlankRequest EXCEPT !.repository = repositoryId, !.resource = "changes",
                       !.pullRequestId = req.pullRequestId.n,
                       !.iteration = latestIteration]

\* the service methods that return result.value of what request() returned
ReadsValue(action) == action \in {"list_prs", "get_comments", "get_diff"}

\* ------------------------------------------------------------------------
\* State
\* ------------------------------------------------------------------------
VARIABLES
  pat,             \* process.env.ADO_PAT
  gitRemote,       \* what `git remote get-url origin` answers: [ok, stdout]
  serviceInstance, \* AzureDevOpsService.serviceInstance: null or a promise
  initPc,          \* where the initialize() coroutine is
  service,         \* the constructed AzureDevOpsService: repoInfo, repositoryId
  callers,         \* the running execute() calls of the tool
  dispatches,      \* number of execute() calls started
  discovery        \* how often each step of initialize() has run

vars == <<pat, gitRemote, serviceInstance, initPc, service, callers, dispatches, discovery>>

CallerIds == 1..NCallers

\* process.env.ADO_PAT?.trim()
Trim(x) == IF x = " " THEN "" ELSE x
\* pat === undefined instead: the empty token passes
TokenUnset(p) == p.t = "undefined"
\* !pat
TokenMissing(p) == p.t = "undefined" \/ Trim(p.s) = ""

Pats == {Undef, Str(""), Str(" "), Str("tok")}

AzureHttpsRemote == <<"https://", "dev.azure.com", "/", "contoso", "/", "web", "/", "_git", "/", "api", ".git">>
OtherRemote == <<"https://", "github.com", "/", "contoso", "/", "api", ".git">>

GitRemotes == {[ok |-> FALSE, stdout |-> <<>>],
               [ok |-> TRUE, stdout |-> AzureHttpsRemote],
               [ok |-> TRUE, stdout |-> OtherRemote]}

NoPromise == [state |-> "null", error |-> NoResult]
NoService == [exists |-> FALSE, repoInfo |-> NoMatch, repositoryId |-> JsNull]
NoIterations == [got |-> FALSE, value |-> <<>>]

Idle == [pc |-> "idle", req |-> NoRequest, startedInit |-> FALSE,
         observed |-> NoPromise, sent |-> <<>>, answers |-> <<>>,
         iterations |-> NoIterations, parsed |-> 0, result |-> NoResult]

\* a cache that forgets a rejected promise
NeedsInitializeAfterFailure(inst) == inst.state \in {"null", "rejected"}
\* if (!this.serviceInstance)
NeedsInitialize(inst) == inst.state = "null"

\* a lookup that is never skipped
RepositoryIdForgotten(id) == FALSE
\* if (this.repositoryId) return;
RepositoryIdKnown(id) == id.t = "string" /\ id.s # ""

InitCommon ==
  /\ serviceInstance = NoPromise
  /\ initPc = "none"
  /\ service = NoService
  /\ callers = [c \in CallerIds |-> Idle]
  /\ dispatches = 0
  /\ discovery = [runs |-> 0, gitReads |-> 0, lookups |-> 0, answer |-> NoAnswer]

Init ==
  /\ pat \in Pats
  /\ gitRemote \in GitRemotes
  /\ InitCommon

\* ------------------------------------------------------------------------
\* execute(params) up to `await AzureDevOpsService.getInstance()`; the first
\* call runs initialize() up to its first await
\* ------------------------------------------------------------------------
Execute(c, req) ==
  /\ callers[c].pc = "idle"
  /\ dispatches < MaxDispatches
  /\ dispatches' = dispatches + 1
  /\ IF NeedsInitialize(serviceInstance)
     THEN /\ callers' = [callers EXCEPT ![c] = [Idle EXCEPT !.pc = "awaitInstance",
                                                           !.req = req,
                                                           !.startedInit = TRUE]]
          /\ IF TokenMissing(pat)
             THEN /\ serviceInstance' = [state |-> "rejected", error |-> ErrNoPat]
                  /\ initPc' = "failed"
                  /\ discovery' = [discovery EXCEPT !.runs = @ + 1]
             ELSE /\ serviceInstance' = [state |-> "pending", error |-> NoResult]
                  /\ initPc' = "git"
                  /\ discovery' = [discovery EXCEPT !.runs = @ + 1, !.gitReads = @ + 1]
          /\ service' = NoService
     ELSE /\ callers' = [callers EXCEPT ![c] = [Idle EXCEPT !.pc = "awaitInstance",
                                                           !.req = req]]
          /\ UNCHANGED <<serviceInstance, initPc, discovery, service>>
  /\ UNCHANGED <<pat, gitRemote>>

\* initialize(): getGitRemoteUrl() answers; parseAzureRemote, the constructor,
\* and ensureRepositoryMetadata() up to its fetch
GitRemoteReturns ==
  /\ initPc = "git"
  /\ IF ~gitRemote.ok
     THEN /\ serviceInstance' = [state |-> "rejected", error |-> ErrExec]
          /\ initPc' = "failed"
          /\ UNCHANGED <<service, discovery>>
     ELSE LET repoInfo == parseAzureRemote(gitRemote.stdout)
          IN IF ~repoInfo.matched
             THEN /\ serviceInstance' = [state |-> "rejected", error |-> ErrRemote]
                  /\ initPc' = "failed"
                  /\ service' = [service EXCEPT !.repoInfo = repoInfo]
                  /\ UNCHANGED discovery
             ELSE /\ service' = [exists |-> TRUE, repoInfo |-> repoInfo, repositoryId |-> JsNull]
                  /\ initPc' = "metadata"
                  /\ discovery' = [discovery EXCEPT !.lookups = @ + 1]
                  /\ UNCHANGED serviceInstance
  /\ UNCHANGED <<pat, gitRemote, callers, dispatches>>

Finished(caller, result) == [caller EXCEPT !.pc = "done", !.result = result]

\* a service method from its `await this.ensureRepositoryMetadata()` up to the
\* fetch it suspends on: the metadata lookup when the identifier is not cached,
\* otherwise the request of the method itself
StartOperation(caller) ==
  IF RepositoryIdKnown(service.repositoryId)
  THEN [caller EXCEPT !.pc = "awaitFetch",
                      !.sent = Append(@, OperationRequest(caller.req, service.repositoryId.s))]
  ELSE [caller EXCEPT !.pc = "ensureMetadata",
                      !.sent = Append(@, MetadataRequest(service.repoInfo))]

\* execute() resumes after `await getInstance()`: the rejection is rethrown, or
\* the switch runs up to the first fetch of the service method
Resume(c) ==
  LET me == [callers[c] EXCEPT !.observed = serviceInstance] IN
  /\ callers[c].pc = "awaitInstance"
  /\ serviceInstance.state \in {"fulfilled", "rejected"}
  /\ IF serviceInstance.state = "rejected"
     THEN /\ callers' = [callers EXCEPT ![c] = Finished(me, serviceInstance.error)]
          /\ UNCHANGED discovery
     ELSE IF HasMissing(me.req)
     THEN /\ callers' = [callers EXCEPT ![c] = Finished(me, ErrMissing(FirstMissing(me.req)))]
          /\ UNCHANGED discovery
     ELSE /\ callers' = [callers EXCEPT ![c] = StartOperation(me)]
          /\ discovery' = [discovery EXCEPT
               !.lookups = IF RepositoryIdKnown(service.repositoryId) THEN @ ELSE @ + 1]
  /\ UNCHANGED <<pat, gitRemote, serviceInstance, initPc, service, dispatches>>

\* ensureRepositoryMetadata() resumes with the answer to repositories/{name}:
\* for w = 0 inside initialize(), otherwise inside caller w's service method
RepositoryResponse(w, resp, body) ==
  LET out == RequestOutcome(resp)
      id == IF out.result = Value("json") THEN body ELSE Undef
      failure == IF out.result.kind = "error" THEN out.result
                 ELSE IF ~(id.t = "string" /\ id.s # "") THEN ErrMetadata
                 ELSE NoResult
      found == [service EXCEPT !.repositoryId = id]
  IN
  /\ IF w = 0 THEN initPc = "metadata" ELSE callers[w].pc = "ensureMetadata"
  /\ (body # Undef) => out.result = Value("json")
  /\ service' = IF failure = NoResult THEN found ELSE service
  /\ IF w = 0
     THEN /\ initPc' = IF failure = NoResult THEN "done" ELSE "failed"
          /\ serviceInstance' = IF failure = NoResult
                                THEN [state |-> "fulfilled", error |-> NoResult]
                                ELSE [state |-> "rejected", error |-> failure]
          /\ discovery' = [discovery EXCEPT !.answer = resp]
          /\ UNCHANGED callers
     ELSE /\ IF failure = NoResult
             THEN /\ callers' = [callers EXCEPT ![w] =
                       [@ EXCEPT !.pc = "awaitFetch", !.parsed = @ + out.parsed,
                                 !.answers = Append(@, resp),
                                 !.sent = Append(@, OperationRequest(callers[w].req, id.s))]]
             ELSE /\ callers' = [callers EXCEPT ![w] =
                       Finished([@ EXCEPT !.parsed = @ + out.parsed,
                                          !.answers = Append(@, resp)], failure)]
          /\ UNCHANGED <<initPc, serviceInstance, discovery>>
  /\ UNCHANGED <<pat, gitRemote, dispatches>>

\* a service method resumes with the answer to its own request (its: the
\* iteration ids of the body, read by getLatestIterationId only)
OperationResponse(c, resp, its) ==
  LET me == callers[c]
      out == RequestOutcome(resp)
      read == [me EXCEPT !.parsed = @ + out.parsed, !.answers = Append(@, resp)]
      last == me.sent[Len(me.sent)]
  IN
  /\ me.pc = "awaitFetch"
  /\ callers' = [callers EXCEPT ![c] =
       IF out.result.kind = "error" THEN Finished(read, out.result)
       ELSE IF ReadsValue(me.req.action) /\ out.result = Value("undefined")
         THEN Finished(read, ErrTypeError)
       ELSE IF last.resource = "iterations"
         THEN IF its = <<>>
              THEN Finished([read EXCEPT !.iterations = [got |-> TRUE, value |-> its]],
                            Value("[]"))
              ELSE [read EXCEPT !.iterations = [got |-> TRUE, value |-> its],
                                !.sent = Append(@, ChangesRequest(me.req, last.repository,
                                                                  LatestIteration(its)))]
       ELSE Finished(read, IF ReadsValue(me.req.action) THEN Value("json.value")
                           ELSE out.result)]
  /\ UNCHANGED <<pat, gitRemote, serviceInstance, initPc, service, dispatches, discovery>>

\* the iteration lists the body of an answer can hold: any for a parsed answer
\* to an iterations request, none to read otherwise
BodyIterations(c, resp) ==
  IF /\ callers[c].pc = "awaitFetch"
     /\ callers[c].sent[Len(callers[c].sent)].resource = "iterations"
     /\ RequestOutcome(resp).result = Value("json")
  THEN IterationLists ELSE {<<>>}

\* fetch answers caller c
OperationAnswered(c) ==
  \E resp \in Responses :
    \E its \in BodyIterations(c, resp) : OperationResponse(c, resp, its)

\* the tool call has answered its client
Return(c) ==
  /\ callers[c].pc = "done"
  /\ callers' = [callers EXCEPT ![c] = Idle]
  /\ UNCHANGED <<pat, gitRemote, serviceInstance, initPc, service, dispatches, discovery>>

\* what concurrent tool calls ask for: a list, and get_pr with and without its
\* id (SpecSequential runs every request the schema admits)
ConcurrentRequests ==
  {r \in Requests :
     /\ r.action \in {"list_prs", "get_pr"}
     /\ r.status = Undef
     /\ r.action = "list_prs" => r.pullRequestId = Undef}

\* several tool calls in flight at once
Next ==
  \/ \E c \in CallerIds, req \in ConcurrentRequests : Execute(c, req)
  \/ GitRemoteReturns
  \/ \E w \in {0} \cup CallerIds, resp \in Responses, body \in RepositoryBodies :
       RepositoryResponse(w, resp, body)
  \/ \E c \in CallerIds : Resume(c)
  \/ \E c \in CallerIds : OperationAnswered(c)
  \/ \E c \in CallerIds : Return(c)

Spec == Init /\ [][Next]_vars

\* one tool call after the other, over every request the schema admits
NextSequential ==
  \/ \E req \in Requests : Execute(1, req)
  \/ GitRemoteReturns
  \/ \E w \in {0, 1}, resp \in Responses, body \in RepositoryBodies :
       RepositoryResponse(w, resp, body)
  \/ Resume(1)
  \/ OperationAnswered(1)
  \/ Return(1)

SpecSequential == Init /\ [][NextSequential]_vars

\* the same in a process that is configured as it should be: a token, and an
\* Azure DevOps remote
InitConfigured ==
  /\ pat = Str("tok")
  /\ gitRemote = [ok |-> TRUE, stdout |-> AzureHttpsRemote]
  /\ InitCommon

SpecConfigured == InitConfigured /\ [][NextSequential]_vars

\* ------------------------------------------------------------------------
\* parseAzureRemote on its own: remotes of the four shapes, remotes of no
\* shape, and remotes that hold one shape inside another
\* ------------------------------------------------------------------------
Shapes == {"https", "httpsUser", "ssh", "legacy"}

\* organization, project and repository names ("webapi", "api.git", ...)
Names == {<<"contoso">>, <<"web", "api">>, <<"api", ".git">>}

\* what is wrong with a remote that has none of the shapes
Defects == {"none", "otherHost", "noGitSegment", "noRepository", "http"}

RemoteCases ==
  [shape : Shapes, org : Names, project : Names, repo : Names,
   suffix : BOOLEAN, upper : BOOLEAN, defect : Defects]

Scheme(x) ==
  IF x.defect = "http" THEN "http://" ELSE IF x.upper THEN "HTTPS://" ELSE "https://"
Host(x) ==
  IF x.defect = "otherHost" THEN "github.com"
  ELSE IF x.upper THEN "DEV.AZURE.COM" ELSE "dev.azure.com"
GitSegment(x) ==
  IF x.defect = "noGitSegment" THEN <<"/">> ELSE <<"/", "_git", "/">>
RepositorySegment(x) ==
  IF x.defect = "noRepository" THEN <<>>
  ELSE x.repo \o (IF x.suffix THEN <<".git">> ELSE <<>>)

\* the remote URL of a case
Render(x) ==
  CASE x.shape = "https" ->
         <<Scheme(x), Host(x), "/">> \o x.org \o <<"/">> \o x.project \o GitSegment(x) \o RepositorySegment(x)
    [] x.shape = "httpsUser" ->
         <<Scheme(x), "jane", "@", Host(x), "/">> \o x.org \o <<"/">> \o x.project
           \o GitSegment(x) \o RepositorySegment(x)
    [] x.shape = "ssh" ->
         <<(IF x.defect \in {"otherHost", "http"} THEN "git@github.com" ELSE "git@ssh.dev.azure.com:v3")>>
           \o (IF x.defect = "noGitSegment" THEN <<>> ELSE <<"/">> \o x.org)
           \o <<"/">> \o x.project \o <<"/">> \o RepositorySegment(x)
    [] x.shape = "legacy" ->
         <<Scheme(x)>> \o x.org
           \o <<(IF x.defect = "otherHost" THEN ".example.com" ELSE ".visualstudio.com"), "/">>
           \o x.project \o GitSegment(x) \o RepositorySegment(x)

Plain(shape) == [shape |-> shape, org |-> <<"contoso">>, project |-> <<"web", "api">>,
                 repo |-> <<"api", ".git">>, suffix |-> TRUE, upper |-> FALSE,
                 defect |-> "none"]

\* a remote of shape outer whose last segment is a whole remote of shape inner
Nested(outer, inner) == Render([Plain(outer) EXCEPT !.repo = Render(Plain(inner))])

RemoteInputs ==
  {Render(x) : x \in RemoteCases}
    \cup {Nested(outer, inner) : outer \in Shapes, inner \in Shapes}
    \cup {<<>>}

InitParse ==
  /\ pat = Str("tok")
  /\ gitRemote \in {[ok |-> TRUE, stdout |-> u] : u \in RemoteInputs}
  /\ InitCommon

NextParse ==
  \/ Execute(1, [NoRequest EXCEPT !.action = "list_prs"])
  \/ GitRemoteReturns

SpecParse == InitParse /\ [][NextParse]_vars

\* ------------------------------------------------------------------------
\* Properties
\* ------------------------------------------------------------------------

\* a trailing .git removed from a repository segment
StripGit(q) ==
  IF Len(q) > 1 /\ q[Len(q)] = ".git" THEN SubSeq(q, 1, Len(q) - 1) ELSE q

Patterns == candidates \o <<legacyVisualStudioPattern>>
MatchingPatterns(url) == {k \in 1..Len(Patterns) : RegexMatch(url, Patterns[k]).matched}

\* initialize() has read the remote and called parseAzureRemote on it
RemoteParsed == initPc \in {"metadata", "done"} \/ serviceInstance.error = ErrRemote

\* C9: for a remote of one of the four shapes (with or without .git, any
\* letter case of scheme and host) parseAzureRemote returns exactly the
\* organization, project and repository segments, the repository without its
\* trailing .git; for a remote of no shape it returns null; and the result is
\* always that of the first pattern, in the order HTTPS, HTTPS with user, SSH,
\* legacy, that matches.
ParseRemoteExact ==
  RemoteParsed =>
    LET url == gitRemote.stdout
        got == service.repoInfo
    IN /\ \A x \in RemoteCases :
            Render(x) = url =>
              got = IF x.defect = "none"
                    THEN [matched |-> TRUE, organization |-> x.org, project |-> x.project,
                          repository |-> StripGit(RepositorySegment(x))]
                    ELSE NoMatch
       /\ url = <<>> => got = NoMatch
       /\ got = IF MatchingPatterns(url) = {} THEN NoMatch
                ELSE RegexMatch(url, Patterns[SetMin(MatchingPatterns(url))])

\* C9 witness: an SSH remote ending in .git was parsed and its suffix stripped
ParseRemoteWitness ==
  /\ RemoteParsed
  /\ gitRemote.stdout = Render([Plain("ssh") EXCEPT !.repo = <<"web", "api">>])
  /\ service.repoInfo.repository = <<"web", "api">>

\* a remote matched by two patterns that capture different segments
ParseRemoteOrderWitness ==
  /\ RemoteParsed
  /\ Cardinality(MatchingPatterns(gitRemote.stdout)) > 1
  /\ service.repoInfo.matched

\* the execute() calls that got the service and passed every requireParam
Dispatched(c) ==
  /\ callers[c].pc \in {"ensureMetadata", "awaitFetch", "done"}
  /\ callers[c].observed.state = "fulfilled"
  /\ ~HasMissing(callers[c].req)

Completed(c) == Dispatched(c) /\ callers[c].pc = "done"

\* C1: however many getInstance calls there are, concurrent or repeated, the
\* discovery sequence (token check, git remote read, repository lookup) runs
\* at most once, and every caller observes the one outcome the memoized
\* promise settled with, a failure included.
InitializeOnce ==
  /\ discovery.runs <= 1
  /\ discovery.gitReads <= 1
  /\ discovery.lookups <= 1
  /\ \A c \in CallerIds :
       callers[c].observed.state # "null" =>
         /\ callers[c].observed = serviceInstance
         /\ serviceInstance.state \in {"fulfilled", "rejected"}
  /\ \A c, d \in CallerIds :
       (callers[c].observed.state # "null" /\ callers[d].observed.state # "null")
         => callers[c].observed = callers[d].observed

\* C1 witness: two calls were in flight, both got the resolved client, and
\* discovery ran once
InitializeOnceWitness ==
  /\ \A c \in {1, 2} : callers[c].observed.state = "fulfilled" /\ callers[c].pc = "done"
  /\ dispatches = 2
  /\ discovery.runs = 1

\* C3: with ADO_PAT absent or empty, initialization fails with the
\* configuration error and neither the git remote is read nor any HTTP request
\* issued.
NoTokenNoNetwork ==
  (pat = Undef \/ pat = Str("")) =>
    /\ discovery.gitReads = 0
    /\ discovery.lookups = 0
    /\ \A c \in CallerIds : callers[c].sent = <<>>
    /\ serviceInstance.state \in {"null", "rejected"}
    /\ serviceInstance.state = "rejected" => serviceInstance.error = ErrNoPat
    /\ \A c \in CallerIds : callers[c].pc = "done" => callers[c].result = ErrNoPat

\* C3 witness: an empty token, and a tool call that ended with the
\* configuration error
NoTokenWitness ==
  /\ pat = Str("")
  /\ \E c \in CallerIds : callers[c].pc = "done" /\ callers[c].result = ErrNoPat

\* the highest of a non-empty list of iteration ids
Highest(ids) == CHOOSE m \in {ids[i] : i \in 1..Len(ids)} : \A i \in 1..Len(ids) : ids[i] <= m

\* C4: getPullRequestDiff asks for the changes of the iteration with the
\* numerically highest id of those the server listed, in whatever order; when
\* the server lists none it returns the empty list, without error and without
\* a changes request.
DiffUsesHighestIteration ==
  \A c \in CallerIds :
    (Dispatched(c) /\ callers[c].req.action = "get_diff") =>
      LET me == callers[c] IN
      /\ Len(me.sent) = 2 =>
           /\ me.iterations.got /\ me.iterations.value # <<>>
           /\ me.sent[2].resource = "changes"
           /\ me.sent[2].pullRequestId = me.req.pullRequestId.n
           /\ me.sent[2].iteration = Highest(me.iterations.value)
      /\ (me.iterations.got /\ me.iterations.value = <<>>) =>
           /\ me.pc = "done"
           /\ me.result = Value("[]")
           /\ Len(me.sent) = 1
      /\ (me.iterations.got /\ me.iterations.value # <<>>) => Len(me.sent) = 2
      /\ me.result = Value("json.value") => Len(me.sent) = 2

\* C4 witness: the server listed iterations 3, 1, 5 and the changes of 5 were
\* fetched and returned
DiffWitness ==
  \E c \in CallerIds :
    /\ Completed(c)
    /\ callers[c].iterations.value = <<3, 1, 5>>
    /\ callers[c].sent[2].iteration = 5
    /\ callers[c].result = Value("json.value")

\* the answers a call got that were HTTP responses outside 200..299
Refused(a) == ~a.net /\ a.status \in Statuses /\ (a.status < 200 \/ a.status > 299)

\* C6: a non-2xx response makes the operation fail with an error carrying the
\* status code, and nothing is requested after it: one attempt, no retry, and
\* no changes request after a refused iterations request; the same inside
\* initialize() for the repository lookup.
RefusedFailsAtOnce ==
  /\ \A c \in CallerIds :
       \A i \in 1..Len(callers[c].answers) :
         Refused(callers[c].answers[i]) =>
           /\ i = Len(callers[c].answers)
           /\ Len(callers[c].sent) = i
           /\ callers[c].pc = "done"
           /\ callers[c].result = ErrHttp(callers[c].answers[i].status)
  /\ Refused(discovery.answer) =>
       /\ serviceInstance = [state |-> "rejected", error |-> ErrHttp(discovery.answer.status)]
       /\ discovery.lookups = 1
       /\ \A c \in CallerIds : callers[c].sent = <<>>

\* C6 witness: the iterations request of a get_diff was answered 404
RefusedWitness ==
  \E c \in CallerIds :
    /\ callers[c].req.action = "get_diff"
    /\ callers[c].answers = <<[net |-> FALSE, status |-> 404]>>
    /\ callers[c].result.status = 404
    /\ Len(callers[c].sent) = 1

\* C8: resolve_thread sends one PATCH whose payload status is "closed" when
\* the request has no status and otherwise the caller's string as it is, the
\* empty string and values outside the server's vocabulary included.
ResolveStatusPassedThrough ==
  \A c \in CallerIds :
    (Dispatched(c) /\ callers[c].req.action = "resolve_thread") =>
      LET me == callers[c] IN
      /\ Len(me.sent) = 1
      /\ me.sent[1].method = "PATCH"
      /\ me.sent[1].resource = "thread"
      /\ me.sent[1].threadId = me.req.threadId.n
      /\ me.sent[1].status = IF me.req.status = Undef THEN "closed" ELSE me.req.status.s

\* C8 witness: a resolve_thread without status sent "closed"
ResolveWitness ==
  \E c \in CallerIds :
    /\ Dispatched(c)
    /\ callers[c].req.action = "resolve_thread"
    /\ callers[c].req.status = Undef
    /\ callers[c].sent[1].status = "closed"

\* C10: list_prs always queries with the status filter "active", whatever
\* the status (or any other field) of the request.
ListAlwaysActive ==
  \A c \in CallerIds :
    /\ (Dispatched(c) /\ callers[c].req.action = "list_prs") =>
         /\ Len(callers[c].sent) = 1
         /\ callers[c].sent[1].resource = "pullRequests"
    /\ \A i \in 1..Len(callers[c].sent) :
         callers[c].sent[i].resource = "pullRequests" => callers[c].sent[i].status = "active"

\* C10 witness: a list_prs that asked for completed pull requests queried the
\* active ones
ListWitness ==
  \E c \in CallerIds :
    /\ Dispatched(c)
    /\ callers[c].req.action = "list_prs"
    /\ callers[c].req.status = Str("completed")
    /\ callers[c].sent[1].status = "active"

\* C2 (as claimed): a dispatch that lacks a required parameter of its action
\* ends with the "Missing required parameter" error and causes no HTTP request,
\* the first dispatch of the process included.
ValidationBeforeNetwork ==
  \A c \in CallerIds :
    (callers[c].pc # "idle" /\ HasMissing(callers[c].req)) =>
      /\ callers[c].sent = <<>>
      /\ callers[c].startedInit => discovery.lookups = 0
      /\ callers[c].pc = "done" =>
           callers[c].result = ErrMissing(FirstMissing(callers[c].req))

\* C5 (as claimed): whatever the operation, a 204 answer makes it complete
\* with the empty result and no error, the body not being parsed.
NoContentIsEmptyResult ==
  \A c \in CallerIds :
    \A i \in 1..Len(callers[c].answers) :
      (~callers[c].answers[i].net /\ callers[c].answers[i].status = 204) =>
        /\ callers[c].pc = "done"
        /\ callers[c].result = Value("undefined")
        /\ callers[c].parsed = 0

\* C7 (as claimed): after getInstance resolved every operation that returns
\* a result has performed one request and getPullRequestDiff two; the
\* repository lookup is not issued again.
ExactRequestCounts ==
  /\ discovery.lookups <= 1
  /\ \A c \in CallerIds :
       (Completed(c) /\ callers[c].result.kind = "value") =>
         Len(callers[c].sent) = IF callers[c].req.action = "get_diff" THEN 2 ELSE 1

\* the requests of the calls in flight and finished
RequestCounts ==
  /\ discovery.lookups <= 1
  /\ serviceInstance.state = "fulfilled" =>
       (service.repositoryId.t = "string" /\ service.repositoryId.s # "")
  /\ \A c \in CallerIds :
       Dispatched(c) =>
         LET me == callers[c] IN
         /\ me.pc # "ensureMetadata"
         /\ \A i \in 1..Len(me.sent) :
              /\ me.sent[i].resource # "repository"
              /\ me.sent[i].repository = service.repositoryId.s
         /\ me.req.action # "get_diff" => Len(me.sent) = 1
         /\ me.req.action = "get_diff" =>
              /\ me.sent[1].resource = "iterations"
              /\ Len(me.sent) = IF me.iterations.got /\ me.iterations.value # <<>>
                                THEN 2 ELSE 1
              /\ Len(me.sent) = 2 => me.sent[2].resource = "changes"

\* once getInstance has resolved, the client and its cached identifier stay
\* as they are and no lookup is issued
IdentifierKept ==
  serviceInstance.state = "fulfilled" =>
    /\ service' = service
    /\ serviceInstance' = serviceInstance
    /\ discovery'.lookups = discovery.lookups

\* C7 (amended): after getInstance resolved every operation other than
\* getPullRequestDiff performs exactly one request; getPullRequestDiff performs
\* two (iterations, then changes) when the iterations request is answered with
\* a body that lists at least one iteration and one (iterations) otherwise; no
\* repository lookup is issued again and the cached identifier, used in every
\* request, never changes.
RequestCountsAmended == [](RequestCounts) /\ [][IdentifierKept]_vars

\* C7 witness: a later post_comment of the process finished after its one
\* request, the only lookup being that of initialize()
RequestCountsWitness ==
  \E c \in CallerIds :
    /\ Completed(c)
    /\ callers[c].req.action = "post_comment"
    /\ Len(callers[c].sent) = 1
    /\ ~callers[c].startedInit
    /\ discovery.lookups = 1

====
